---- MODULE Spec2Model ----
\* A model of the GalNet community-page scraper (src/src/cmtypage_scraper.rs,
\* src/src/common.rs): the run orchestrator extract_all_pages, the page
\* crawler extract_page, the article extractor extract_articles and the
\* change-aware persister extract_page_to_file, over an abstract web site
\* and an abstract file system.
\*
\* Text is modelled as a sequence of tokens, so that string concatenation is
\* sequence concatenation (\o) and a formatted name is the sequence of its
\* parts in the order the format string puts them.
EXTENDS Integers, Sequences, FiniteSets, TLC

\* ------------------------------------------------------------------ bounds
\* The wall clock (seconds) runs from 0 to MaxClock.
MaxClock == 1
\* The runs of extract_all_pages a behaviour holds.
MaxRuns == 2
\* The file operations the environment fails, and the kills, in a behaviour.
MaxFaults == 1

\* --------------------------------------------------------------- constants
ELITE_DANGEROUS_COMMUNITY_SITE == "https://community.elitedangerous.com"
EXTRACT_LOCATION == "./galnet"
DOWNLOADED_PAGES_FILE == <<EXTRACT_LOCATION, "/successful-pages.json">>
FAILED_PAGES_FILE == <<EXTRACT_LOCATION, "/failed-pages.json">>
EXTRACTED_FILES_LOCATION == <<EXTRACT_LOCATION, "/files">>

\* An optional value is a set: None is the empty set, Some(v) is {v}.
None == {}
Some(v) == {v}
Unwrap(o) == CHOOSE v \in o : TRUE
\* The content of a file whose bytes are not a complete JSON value (a write
\* that failed after the file was created or truncated).
Corrupt == {}
\* The text of the cause carried by an I/O or transport error.
IoError == "io error"
NetError == "network error"

\* -------------------------------------------------------------- text layer
\* str::trim on a token sequence: leading and trailing blanks are dropped.
RECURSIVE TrimLeft(_)
TrimLeft(s) ==
    IF s # <<>> /\ Head(s) = " " THEN TrimLeft(Tail(s)) ELSE s

RECURSIVE TrimRight(_)
TrimRight(s) ==
    IF s # <<>> /\ s[Len(s)] = " " THEN TrimRight(SubSeq(s, 1, Len(s) - 1)) ELSE s

Trim(s) == TrimRight(TrimLeft(s))

with_site_base_url(url) == <<ELITE_DANGEROUS_COMMUNITY_SITE>> \o url

\* URL_UID_MATCHER, /uid/([^/#?]+): the token after the first "/uid/" token
\* that is followed by a token other than a delimiter; None without a match.
UidStops == {"/", "#", "?"}
UidHits(url) ==
    {i \in 1..(Len(url) - 1) : url[i] = "/uid/" /\ url[i + 1] \notin UidStops}
extract_galnet_url_uid(url) ==
    IF UidHits(url) = {} THEN None
    ELSE LET i == CHOOSE j \in UidHits(url) : \A k \in UidHits(url) : j <= k
         IN  Some(url[i + 1])

\* ARTICLE_DATE_MATCHER, (\d{2})[\s-](\w{3})[\s-](\d{4,}): the first place
\* where a two-digit token, a separator, a three-letter token, a separator
\* and a year token follow each other.
Digits2 == {"07", "08"}
Word3 == {"SEP", "OCT"}
Digits4 == {"3301", "3302"}
DateSeps == {" ", "-"}
DateHits(date) ==
    {i \in 1..(Len(date) - 4) :
        /\ date[i] \in Digits2
        /\ date[i + 1] \in DateSeps
        /\ date[i + 2] \in Word3
        /\ date[i + 3] \in DateSeps
        /\ date[i + 4] \in Digits4}
revert_galnet_date(date) ==
    IF DateHits(date) = {} THEN date
    ELSE LET i == CHOOSE j \in DateHits(date) : \A k \in DateHits(date) : j <= k
         IN  <<date[i + 4], " ", date[i + 2], " ", date[i]>>

\* Utc::now().naive_utc().format(fmt): the clock reading at second
\* precision, laid out by fmt.
format_time(t, fmt) == <<fmt, ToString(t)>>
EXTRACTION_DATE_FORMAT == "%Y-%m-%dT%H:%M:%SZ"
BACKUP_DATE_FORMAT == "%Y-%m-%dT%H-%M-%SZ"

\* ------------------------------------------------------------- the markup
\* A page is [anchors, blocks]. An anchor is [class, href]: class says
\* whether it matches a.galnetLinkBoxLink, href is None or Some(text). A
\* block is an element matching .article: [h3, date, content]; h3 is None or
\* Some([text, a]), a is None or Some([href]), href is None or Some(text);
\* date is the text of the first "div > p" (None or Some(text)); content is
\* the text of the first ":scope > p".

extract_date_links(html) ==
    {with_site_base_url(Trim(Unwrap(a.href))) :
        a \in {b \in html.anchors : b.class /\ b.href # None}}

\* The selectors of one article block: None, or Some(element).
ARTICLE_URL_SELECTOR(block) ==
    IF block.h3 = None THEN None ELSE Unwrap(block.h3).a
ARTICLE_TITLE_SELECTOR(block) ==
    IF block.h3 = None THEN None ELSE Some(Unwrap(block.h3).text)
ARTICLE_DATE_SELECTOR(block) == block.date
ARTICLE_CONTENT_SELECTOR(block) == block.content

get_element_text(text) == Trim(text)

\* A GalnetError is [kind, at, cause]: at is the filename or the url (empty
\* for a ParserError); cause is the displayed text of the boxed cause, a
\* record [text, page] whose page holds the markup quoted in the text, if any.
Str(text) == [text |-> text, page |-> None]
ParserError(cause) == [kind |-> "ParserError", at |-> <<>>, cause |-> cause]
ScraperError(url, cause) == [kind |-> "ScraperError", at |-> url, cause |-> cause]
FileError(filename, cause) == [kind |-> "FileError", at |-> filename, cause |-> cause]

\* Display for GalnetError.
to_string(e) ==
    IF e.kind = "ParserError"
    THEN [text |-> <<"Error while parsing: ">> \o e.cause.text, page |-> e.cause.page]
    ELSE [text |-> <<"Error while scraping from \"">> \o e.at \o <<"\": ">> \o e.cause.text,
          page |-> e.cause.page]

\* get_element_url panics (expect) when the permalink element has no href.
BlockPanics(block) ==
    /\ ARTICLE_URL_SELECTOR(block) # None
    /\ Unwrap(ARTICLE_URL_SELECTOR(block)).href = None

\* One article block at position page_index, extracted at time now, for a
\* block that does not panic: [ok |-> TRUE, article] or [ok |-> FALSE, err].
extract_article(block, page_index, now) ==
    LET url_el == ARTICLE_URL_SELECTOR(block) IN
    IF url_el = None
    THEN [ok |-> FALSE, err |-> ParserError(Str(<<"Couldn't find article url">>))]
    ELSE
    LET url == with_site_base_url(Unwrap(Unwrap(url_el).href))
        uid == extract_galnet_url_uid(url)
    IN
    IF uid = None
    THEN [ok |-> FALSE,
          err |-> ParserError(Str(<<"Couldn't find article \"">> \o url \o <<"\" uid">>))]
    ELSE IF ARTICLE_TITLE_SELECTOR(block) = None
    THEN [ok |-> FALSE,
          err |-> ParserError(Str(<<"Couldn't find article \"", Unwrap(uid), "\" title">>))]
    ELSE IF ARTICLE_DATE_SELECTOR(block) = None
    THEN [ok |-> FALSE,
          err |-> ParserError(Str(<<"Couldn't find article \"", Unwrap(uid), "\" date">>))]
    ELSE IF ARTICLE_CONTENT_SELECTOR(block) = None
    THEN [ok |-> FALSE,
          err |-> ParserError(Str(<<"Couldn't find article \"", Unwrap(uid), "\" content">>))]
    ELSE [ok |-> TRUE,
          article |-> [uid |-> Unwrap(uid),
                       page_index |-> page_index,
                       title |-> get_element_text(Unwrap(ARTICLE_TITLE_SELECTOR(block))),
                       date |-> get_element_text(Unwrap(ARTICLE_DATE_SELECTOR(block))),
                       url |-> url,
                       content |-> get_element_text(Unwrap(ARTICLE_CONTENT_SELECTOR(block))),
                       extraction_date |-> format_time(now, EXTRACTION_DATE_FORMAT),
                       deprecated |-> FALSE]]

\* Whether extracting the page panics: some block does.
ExtractPanics(html) == \E i \in 1..Len(html.blocks) : BlockPanics(html.blocks[i])

\* The results of all blocks in document order (page_index counts from 0).
\* Each block reads the clock for itself: now[i] is the reading of block i.
extract_articles(html, now) ==
    [i \in 1..Len(html.blocks) |-> extract_article(html.blocks[i], i - 1, now[i])]

\* Article equality by uid alone.
ArticleEqByUid(a, b) == a.uid = b.uid

\* Article equality that compares the extraction date too.
ArticleEqWithExtractionDate(a, b) ==
    /\ a.uid = b.uid
    /\ a.title = b.title
    /\ a.content = b.content
    /\ a.url = b.url
    /\ a.page_index = b.page_index
    /\ a.extraction_date = b.extraction_date

\* PartialEq for Article.
ArticleEq(a, b) ==
    /\ a.uid = b.uid
    /\ a.title = b.title
    /\ a.content = b.content
    /\ a.url = b.url
    /\ a.page_index = b.page_index

\* HashSet<Article>::insert: an element equal to one already held is dropped.
hash_set_insert(articles, article) ==
    IF \E b \in articles : ArticleEq(b, article) THEN articles ELSE articles \cup {article}

RECURSIVE CollectArticles(_, _)
CollectArticles(results, i) ==
    IF i = 0 THEN {}
    ELSE IF results[i].ok
         THEN hash_set_insert(CollectArticles(results, i - 1), results[i].article)
         ELSE CollectArticles(results, i - 1)

RECURSIVE CollectErrors(_, _)
CollectErrors(results, i) ==
    IF i = 0 THEN <<>>
    ELSE IF results[i].ok
         THEN CollectErrors(results, i - 1)
         ELSE Append(CollectErrors(results, i - 1), results[i].err)

\* The outcome of fetch_text(url): [ok |-> FALSE] for a transport error, or
\* [ok |-> TRUE, html].
FetchFailed == [ok |-> FALSE]
Fetched(html) == [ok |-> TRUE, html |-> html]

\* extract_page, given the outcome of fetch_text(url), for markup that does
\* not panic, and the clock readings now of its blocks: the PageExtraction.
extract_page(url, fetched, now) ==
    IF ~fetched.ok
    THEN [url |-> url, articles |-> {}, links |-> {},
          errors |-> <<ScraperError(url, Str(<<NetError>>))>>]
    ELSE
    LET results == extract_articles(fetched.html, now)
        articles == CollectArticles(results, Len(results))
        errors == CollectErrors(results, Len(results))
    IN  [url |-> url,
         articles |-> articles,
         links |-> extract_date_links(fetched.html),
         errors |-> IF articles = {}
                    THEN Append(errors,
                           ScraperError(url,
                             to_string(ParserError(
                               [text |-> <<"Could not find any article for this page:\n">>,
                                page |-> Some(fetched.html)]))))
                    ELSE errors]

\* ---------------------------------------------------------- the blob store
\* The file system fs maps each existing path to its content: Corrupt, or
\* Some(the JSON value). An operation's outcome is chosen by the environment.

\* serde's image of an Article and back (fields renamed as the attributes say).
ArticleToJson(a) ==
    [uid |-> a.uid, pageIndex |-> a.page_index, title |-> a.title, date |-> a.date,
     url |-> a.url, content |-> a.content, extractionDate |-> a.extraction_date,
     deprecated |-> a.deprecated]
ArticleFromJson(j) ==
    [uid |-> j.uid, page_index |-> j.pageIndex, title |-> j.title, date |-> j.date,
     url |-> j.url, content |-> j.content, extraction_date |-> j.extractionDate,
     deprecated |-> j.deprecated]

\* serialize_to_file. outcome "ok": the file holds the value; "open_err":
\* the open fails and nothing changes; "write_err": the file was created or
\* truncated and the write failed part-way. Returns [fs, ok].
serialize_to_file(files, filepath, json, outcome) ==
    CASE outcome = "ok" ->
            [fs |-> [p \in DOMAIN files \cup {filepath} |->
                        IF p = filepath THEN Some(json) ELSE files[p]],
             ok |-> TRUE]
      [] outcome = "open_err" -> [fs |-> files, ok |-> FALSE]
      [] outcome = "write_err" ->
            [fs |-> [p \in DOMAIN files \cup {filepath} |->
                        IF p = filepath THEN Corrupt ELSE files[p]],
             ok |-> FALSE]

\* deserialize_from_file. outcome "err": the open fails with an error other
\* than NotFound. Returns [ok, value]: Ok(None), Ok(Some(json)) or Err.
deserialize_from_file(files, filepath, outcome) ==
    IF outcome = "err" THEN [ok |-> FALSE, value |-> None]
    ELSE IF filepath \notin DOMAIN files THEN [ok |-> TRUE, value |-> None]
    ELSE IF files[filepath] = Corrupt THEN [ok |-> FALSE, value |-> None]
    ELSE [ok |-> TRUE, value |-> files[filepath]]

\* The HashSet serde collects from a JSON array.
SetOfArray(array) == {array[i] : i \in 1..Len(array)}

\* list_downloaded_pages: [ok, value], the value being the set of urls.
list_downloaded_pages(files, outcome) ==
    LET r == deserialize_from_file(files, DOWNLOADED_PAGES_FILE, outcome) IN
    IF ~r.ok THEN [ok |-> FALSE, value |-> {}]
    ELSE IF r.value = None THEN [ok |-> TRUE, value |-> {}]
    ELSE [ok |-> TRUE, value |-> SetOfArray(Unwrap(r.value))]

gen_article_filename(article) ==
    EXTRACTED_FILES_LOCATION \o <<"/">> \o revert_galnet_date(article.date)
        \o <<" - ", ToString(article.page_index), " - ", article.uid, ".json">>

gen_backup_filename(filename, now) ==
    filename \o <<" - ">> \o format_time(now, BACKUP_DATE_FORMAT)

\* The loop body archiving the record as it was read.
persist_article_keeping_flag(files, article, io, now) ==
    LET filename == gen_article_filename(article)
        read == deserialize_from_file(files, filename, io.read)
        exists == read.ok /\ read.value # None
    IN
    IF exists /\ ArticleEq(ArticleFromJson(Unwrap(read.value)), article)
    THEN [fs |-> files, errors |-> <<>>]
    ELSE
    LET backup_filename == gen_backup_filename(filename, now)
        archived == IF exists
                    THEN serialize_to_file(files, backup_filename, Unwrap(read.value),
                                           io.backup)
                    ELSE [fs |-> files, ok |-> TRUE]
        written == serialize_to_file(archived.fs, filename, ArticleToJson(article), io.live)
    IN  [fs |-> written.fs,
         errors |-> (IF archived.ok THEN <<>>
                     ELSE <<FileError(backup_filename, Str(<<IoError>>))>>)
                    \o (IF written.ok THEN <<>>
                        ELSE <<FileError(filename, Str(<<IoError>>))>>)]

\* The body of the loop of extract_page_to_file for one article, on the file
\* system files with the environment's outcomes io = [read, backup, live].
\* Returns [fs, errors]: the file system after it and the errors it pushes.
persist_article(files, article, io, now) ==
    LET filename == gen_article_filename(article)
        read == deserialize_from_file(files, filename, io.read)
        exists == read.ok /\ read.value # None
    IN
    IF exists /\ ArticleEq(ArticleFromJson(Unwrap(read.value)), article)
    THEN [fs |-> files, errors |-> <<>>]
    ELSE
    LET backup_filename == gen_backup_filename(filename, now)
        archived == IF exists
                    THEN serialize_to_file(files, backup_filename,
                           ArticleToJson([ArticleFromJson(Unwrap(read.value))
                                             EXCEPT !.deprecated = TRUE]),
                           io.backup)
                    ELSE [fs |-> files, ok |-> TRUE]
        written == serialize_to_file(archived.fs, filename, ArticleToJson(article), io.live)
    IN  [fs |-> written.fs,
         errors |-> (IF archived.ok THEN <<>>
                     ELSE <<FileError(backup_filename, Str(<<IoError>>))>>)
                    \o (IF written.ok THEN <<>>
                        ELSE <<FileError(filename, Str(<<IoError>>))>>)]

\* Where a kill of the process can stop the loop body: before its first
\* write (as the record is read or compared, or as the archive is about to
\* be opened), in the write of the archive, between the archive and the open
\* of the live file, or in the write of the live file.
LoopCuts == {"read", "archive", "between", "live"}

\* The loop body for one article when the process is killed at cut, no file
\* operation failing: [reached, fs], reached saying whether the body comes to
\* that point for this article, fs the files the kill leaves. A write that is
\* cut leaves its file created or truncated and not written out.
killed_persist_article(files, article, cut, now) ==
    LET filename == gen_article_filename(article)
        read == deserialize_from_file(files, filename, "ok")
        exists == read.ok /\ read.value # None
    IN
    IF cut = "read"
    THEN [reached |-> TRUE, fs |-> files]
    ELSE IF exists /\ ArticleEq(ArticleFromJson(Unwrap(read.value)), article)
    THEN [reached |-> FALSE, fs |-> files]
    ELSE
    LET backup_filename == gen_backup_filename(filename, now)
        extracted_article == ArticleToJson([ArticleFromJson(Unwrap(read.value))
                                        EXCEPT !.deprecated = TRUE])
        archived == IF exists
                    THEN serialize_to_file(files, backup_filename, extracted_article, "ok")
                    ELSE [fs |-> files, ok |-> TRUE]
    IN  CASE cut = "archive" ->
                IF exists
                THEN [reached |-> TRUE,
                      fs |-> serialize_to_file(files, backup_filename, extracted_article,
                                               "write_err").fs]
                ELSE [reached |-> FALSE, fs |-> files]
          [] cut = "between" -> [reached |-> TRUE, fs |-> archived.fs]
          [] cut = "live" ->
                [reached |-> TRUE,
                 fs |-> serialize_to_file(archived.fs, filename, ArticleToJson(article),
                                          "write_err").fs]

\* The loop of extract_page_to_file over the articles in the order the hash
\* set yields them (order, a sequence enumerating page.articles), article k
\* with the outcomes io[k] and the clock reading now[k] for the name of its
\* archive. Returns [fs, errors] after the first n articles.
RECURSIVE persist_articles(_, _, _, _, _)
persist_articles(files, order, io, now, n) ==
    IF n = 0 THEN [fs |-> files, errors |-> <<>>]
    ELSE LET before == persist_articles(files, order, io, now, n - 1)
             step == persist_article(before.fs, order[n], io[n], now[n])
         IN  [fs |-> step.fs, errors |-> before.errors \o step.errors]

\* extract_page_to_file, given the PageExtraction of extract_page: returns
\* [fs, page], the page carrying the file errors after the extraction errors.
extract_page_to_file(files, page, order, io, now) ==
    LET done == persist_articles(files, order, io, now, Len(order)) IN
    [fs |-> done.fs, page |-> [page EXCEPT !.errors = page.errors \o done.errors]]

\* ------------------------------------------------------------ the web site
\* What the environment can serve. The date pages are named A, B and C; the
\* root page lists any of the pages of the site.
PageNames == {"A", "B", "C"}
PageHref(n) == <<"/galnet/", n>>
PageUrl(n) == with_site_base_url(PageHref(n))
Pages == {PageUrl(n) : n \in PageNames}

\* The date-link anchor of a page; the one of B is written with blanks
\* around its href.
DateAnchor(n) ==
    [class |-> TRUE,
     href |-> Some(IF n = "B" THEN <<" ">> \o PageHref(n) \o <<" ">> ELSE PageHref(n))]
DateAnchors(names) == {DateAnchor(n) : n \in names}
\* Anchors that are no date links: one without the class, one without href.
OtherAnchors ==
    {[class |-> FALSE, href |-> Some(PageHref("C"))], [class |-> TRUE, href |-> None]}

\* The date pages a root page lists: the first pages of the site, none to all.
RootLists == {{}, {"A"}, {"A", "B"}, {"A", "B", "C"}}
RootHtmls(names) ==
    {[anchors |-> DateAnchors(S) \cup OtherAnchors, blocks |-> <<>>] :
        S \in RootLists \cap SUBSET names}

\* A well-formed article block of page n with body text c. Every article
\* belongs to one page: its uid is the page's name.
GoodBlock(n, c) ==
    [h3 |-> Some([text |-> <<"News of ", n>>,
                  a |-> Some([href |-> Some(<<"/galnet", "/uid/", n>>)])]),
     date |-> Some(<<"07", " ", "SEP", " ", "3301">>),
     content |-> Some(<<c, " ">>)]
\* A block without its h3 element.
NoLinkBlock == [h3 |-> None, date |-> None, content |-> Some(<<"text">>)]
\* A block whose permalink ends at /uid/, with no uid after it.
NoUidBlock ==
    [h3 |-> Some([text |-> <<"News">>, a |-> Some([href |-> Some(<<"/galnet", "/uid/">>)])]),
     date |-> Some(<<"07", " ", "SEP", " ", "3301">>),
     content |-> Some(<<"text">>)]
\* A block whose permalink element has no href attribute.
NoHrefBlock ==
    [h3 |-> Some([text |-> <<"News">>, a |-> Some([href |-> None])]),
     date |-> None, content |-> None]

\* The article blocks a page of a plain site can hold: none, its one
\* article, or a block that panics.
PlainBlocks(n) == {<<>>, <<GoodBlock(n, "c1")>>, <<NoHrefBlock>>}
\* Those of a rich site: the article with either text, alone, before or
\* after a block without link, before a block without uid, before a block
\* that panics, or twice.
RichBlocks(n) ==
    PlainBlocks(n) \cup
    {<<GoodBlock(n, "c2")>>,
     <<NoLinkBlock, GoodBlock(n, "c1")>>,
     <<GoodBlock(n, "c1"), NoLinkBlock>>,
     <<GoodBlock(n, "c1"), NoUidBlock>>,
     <<GoodBlock(n, "c1"), NoHrefBlock>>,
     <<GoodBlock(n, "c1"), GoodBlock(n, "c2")>>}

\* Every date page carries the date links of the whole site.
PageHtmls(n, st) ==
    {[anchors |-> DateAnchors(st.names), blocks |-> b] :
        b \in IF st.rich THEN RichBlocks(n) ELSE PlainBlocks(n)}

\* The outcomes of fetch_text for the root and for the page at url, on the
\* site st = [names, rich].
RootFetches(st) == {FetchFailed} \cup {Fetched(h) : h \in RootHtmls(st.names)}
PageFetches(url, st) ==
    {FetchFailed} \cup
    {Fetched(h) : h \in UNION {PageHtmls(n, st) : n \in {m \in st.names : PageUrl(m) = url}}}

\* The environment's outcomes for the file operations.
ReadOutcomes == {"ok", "err"}
WriteOutcomes == {"ok", "open_err", "write_err"}
IoOutcomes == [read : ReadOutcomes, backup : WriteOutcomes, live : WriteOutcomes]

\* The orders in which a hash set can yield its elements.
Orders(S) ==
    {o \in [1..Cardinality(S) -> S] : \A i, j \in 1..Cardinality(S) : o[i] = o[j] => i = j}

\* The file operations the environment fails in a choice of outcomes.
Faults(outcomes) == Cardinality({i \in DOMAIN outcomes : outcomes[i] # "ok"})
IoFaults(io) ==
    Cardinality({i \in DOMAIN io : io[i].read # "ok"})
    + Cardinality({i \in DOMAIN io : io[i].backup # "ok"})
    + Cardinality({i \in DOMAIN io : io[i].live # "ok"})

\* ---------------------------------------------------------------- the state
VARIABLES
    fs,                 \* the file system: path -> content
    now,                \* the wall clock, in seconds
    pc,                 \* "idle", "crawl" (pages being crawled), "persist"
    status,             \* how the last run ended: "none", "ok", "err", "panic", "killed"
    sequentially,       \* the argument of the run
    extracted_links,    \* extract_all_pages: the links of the root page
    downloaded_pages,   \* extract_all_pages: the set of downloaded urls
    failed_pages,       \* extract_all_pages: url -> ErroredPage
    links,              \* extract_all_pages: the urls to crawl
    page_extractions,   \* extract_all_pages: the PageExtractions so far
    runs,               \* the number of runs started
    faults,             \* the number of failed file operations and of kills from the crawl on
    site,               \* the environment: [names, rich, runs, trace]
    \* History, read by the properties only.
    fs0,                \* the file system when the run began
    loaded,             \* the downloaded pages the run loaded
    cur,                \* the run: [mode, root, served, errors, faults0]
    prev,               \* the run before it, and how it ended: [run, status]
    attempted,          \* the urls crawled in a run that reached its bookkeeping update
    failing,            \* the urls whose latest crawl produced errors
    log,                \* what the last extract_page_to_file met, per article
    alt                 \* the same run in the other mode: [fs, pages, book]

locals ==
    <<sequentially, extracted_links, downloaded_pages, failed_pages, links,
      page_extractions>>
history == <<fs0, loaded, cur, prev, attempted, failing, log, alt>>
vars == <<fs, now, pc, status, locals, runs, faults, site, history>>

EmptyMap == [u \in {} |-> {}]
EmptyBook == [downloaded |-> {}, failed |-> EmptyMap]
NewRun(seq, root, n) ==
    [mode |-> seq, root |-> root, served |-> EmptyMap, errors |-> EmptyMap, faults0 |-> n]

NoRun == NewRun(TRUE, None, 0)
NoAlt == [fs |-> EmptyMap, pages |-> {}, book |-> EmptyBook]

Crawled == {p.url : p \in page_extractions}

Start ==
    /\ fs = EmptyMap
    /\ pc = "idle"
    /\ status = "none"
    /\ sequentially = TRUE
    /\ extracted_links = {}
    /\ downloaded_pages = {}
    /\ failed_pages = EmptyMap
    /\ links = {}
    /\ page_extractions = {}
    /\ runs = 0
    /\ faults = 0
    /\ fs0 = EmptyMap
    /\ loaded = {}
    /\ cur = NoRun
    /\ prev = [run |-> NoRun, status |-> "none"]
    /\ attempted = {}
    /\ failing = {}
    /\ log = {}
    /\ alt = NoAlt

\* A site of three pages, each with its one article or none.
Init ==
    /\ Start
    /\ now = 0
    /\ site = [names |-> PageNames, rich |-> FALSE, runs |-> MaxRuns, trace |-> FALSE]
\* A site of one page whose articles change from fetch to fetch.
InitPage ==
    /\ Start
    /\ now = 0
    /\ site = [names |-> {"A"}, rich |-> TRUE, runs |-> MaxRuns + 1, trace |-> TRUE]

\* The history of a run that is over, on the file system files: it is kept
\* until the next run where the site says so (site.trace), and dropped with
\* the locals otherwise.
Over(files) ==
    IF site.trace
    THEN UNCHANGED <<fs0, loaded, cur, log, alt>>
    ELSE /\ fs0' = files
         /\ loaded' = {}
         /\ cur' = NoRun
         /\ log' = {}
         /\ alt' = NoAlt

\* The clock advances between two runs (within a run the crawl steps read
\* it as it advances).
Tick ==
    /\ pc = "idle"
    /\ now < MaxClock
    /\ now' = now + 1
    /\ UNCHANGED <<fs, pc, status, locals, runs, faults, site, history>>

\* to_crawl without the difference: every link of the root page is crawled.
to_crawl_all(extracted, downloaded) == extracted

\* The urls to crawl: the links of the root page that are not downloaded.
to_crawl(extracted, downloaded) == extracted \ downloaded

\* extract_all_pages up to the crawl: fetch the root, load the downloaded
\* pages, compute the links to crawl, create the directory. A failure of any
\* of these returns the error (the ? operator) and the run is over.
Begin(seq, root, read, mkdir) ==
    /\ pc = "idle"
    /\ runs < site.runs
    /\ runs' = runs + 1
    /\ faults + Faults(<<read, mkdir>>) <= MaxFaults
    /\ faults' = faults + Faults(<<read, mkdir>>)
    /\ sequentially' = seq
    /\ failed_pages' = EmptyMap
    /\ page_extractions' = {}
    /\ LET got == list_downloaded_pages(fs, read) IN
       IF root.ok /\ got.ok /\ mkdir = "ok"
       THEN /\ pc' = "crawl"
            /\ status' = "none"
            /\ downloaded_pages' = got.value
            /\ extracted_links' = extract_date_links(root.html)
            /\ links' = to_crawl(extract_date_links(root.html), got.value)
            /\ loaded' = got.value
            /\ fs0' = fs
            /\ cur' = NewRun(seq, Some(root.html), faults)
            /\ alt' = [fs |-> fs, pages |-> {}, book |-> EmptyBook]
       ELSE /\ pc' = "idle"
            /\ status' = "err"
            /\ downloaded_pages' = {}
            /\ extracted_links' = {}
            /\ links' = {}
            /\ loaded' = {}
            /\ fs0' = fs
            /\ cur' = IF site.trace
                      THEN NewRun(seq, IF root.ok THEN Some(root.html) ELSE None, faults)
                      ELSE NoRun
            /\ alt' = IF site.trace THEN [fs |-> fs, pages |-> {}, book |-> EmptyBook]
                      ELSE NoAlt
    /\ prev' = IF site.trace THEN [run |-> cur, status |-> status] ELSE prev
    /\ log' = {}
    /\ UNCHANGED <<fs, now, site, attempted, failing>>

\* What a run killed before the crawl had of the root page: nothing, when
\* it is killed during the root fetch, or the page, when it is killed as it
\* opens successful-pages.json.
StartKills(st) == {None} \cup {Some(root.html) : root \in {r \in RootFetches(st) : r.ok}}

\* The host kills the process before the crawl, during the root fetch or at
\* the open of successful-pages.json: no file is touched and nothing is
\* printed, whatever the files hold.
KillAtStart(seq, root) ==
    /\ pc = "idle"
    /\ runs < site.runs
    /\ runs' = runs + 1
    /\ sequentially' = seq
    /\ failed_pages' = EmptyMap
    /\ page_extractions' = {}
    /\ downloaded_pages' = {}
    /\ extracted_links' = {}
    /\ links' = {}
    /\ pc' = "idle"
    /\ status' = "killed"
    /\ loaded' = {}
    /\ fs0' = fs
    /\ cur' = IF site.trace THEN NewRun(seq, root, faults) ELSE NoRun
    /\ alt' = IF site.trace THEN [fs |-> fs, pages |-> {}, book |-> EmptyBook]
              ELSE NoAlt
    /\ prev' = IF site.trace THEN [run |-> cur, status |-> status] ELSE prev
    /\ log' = {}
    /\ UNCHANGED <<fs, now, faults, site, attempted, failing>>

\* The history of crawling url, served fetched, with the errors found.
Remember(url, fetched, errors) ==
    /\ cur' = [cur EXCEPT
                 !.served = [u \in DOMAIN cur.served \cup {url} |->
                                IF u = url THEN fetched ELSE cur.served[u]],
                 !.errors = [u \in DOMAIN cur.errors \cup {url} |->
                                IF u = url THEN errors ELSE cur.errors[u]]]

AllOk(n) == [k \in 1..n |-> [read |-> "ok", backup |-> "ok", live |-> "ok"]]

\* What the loop of extract_page_to_file meets at one article: the file at
\* its path and at its backup path before the loop, and the outcomes.
Met(files, article, io, t) ==
    LET filename == gen_article_filename(article)
        backup == gen_backup_filename(filename, t)
    IN  [article |-> article, io |-> io, now |-> t,
         path |-> filename, backup |-> backup,
         had |-> filename \in DOMAIN files,
         old |-> IF filename \in DOMAIN files THEN files[filename] ELSE Corrupt,
         hadBackup |-> backup \in DOMAIN files,
         oldBackup |-> IF backup \in DOMAIN files THEN files[backup] ELSE Corrupt]

\* The clock over n successive positions (blocks, articles) from second t
\* on, read by Utc::now at the positions in reads: the clock may advance
\* between any two readings, and a position that does not read it is given
\* the second of the position before.
Readings(t, n, reads) ==
    {r \in [1..n -> t..MaxClock] :
        /\ \A i, j \in 1..n : i < j => r[i] <= r[j]
        /\ \A i \in (1..n) \ reads : r[i] = (IF i = 1 THEN t ELSE r[i - 1])}
\* The last of the readings r taken after second t.
LastReading(r, t) == IF Len(r) = 0 THEN t ELSE r[Len(r)]
\* The article blocks of a fetched page, and those that come to the clock
\* reading of extract_articles: the blocks that give an Article.
Blocks(fetched) == IF fetched.ok THEN Len(fetched.html.blocks) ELSE 0
Stamped(fetched) ==
    {i \in 1..Blocks(fetched) : extract_article(fetched.html.blocks[i], i - 1, 0).ok}
\* The articles of order that come to the clock reading of the loop of
\* extract_page_to_file: those whose record is read and differs.
Archived(files, order, io) ==
    {k \in 1..Len(order) :
        LET read == deserialize_from_file(files, gen_article_filename(order[k]), io[k].read)
        IN  /\ read.ok
            /\ read.value # None
            /\ ~ArticleEq(ArticleFromJson(Unwrap(read.value)), order[k])}

\* Sequential mode: extract_page_to_file for the next link. The blocks read
\* the clock as they are extracted (tx), the articles as they are archived
\* (ta).
SeqCrawl(url, fetched) ==
    /\ pc = "crawl"
    /\ sequentially
    /\ url \in links \ Crawled
    /\ fetched.ok => ~ExtractPanics(fetched.html)
    /\ \E tx \in Readings(now, Blocks(fetched), Stamped(fetched)) :
       LET page == extract_page(url, fetched, tx) IN
       \E io \in [1..Cardinality(page.articles) -> IoOutcomes] :
          /\ faults + IoFaults(io) <= MaxFaults
          /\ faults' = faults + IoFaults(io)
          /\ \E order \in Orders(page.articles) :
             \E ta \in Readings(LastReading(tx, now), Len(order), Archived(fs, order, io)) :
                LET r == extract_page_to_file(fs, page, order, io, ta) IN
                /\ fs' = r.fs
                /\ now' = LastReading(ta, LastReading(tx, now))
                /\ page_extractions' = page_extractions \cup {r.page}
                /\ Remember(url, fetched, r.page.errors)
                /\ log' = {Met(fs, order[k], io[k], ta[k]) : k \in 1..Len(order)}
          /\ alt' = [alt EXCEPT !.pages = @ \cup {page}]
    /\ UNCHANGED <<pc, status, sequentially, extracted_links, downloaded_pages,
                   failed_pages, links, runs, site, fs0, loaded, prev, attempted, failing>>

\* Concurrent mode: one of the extract_page futures of join_all completes.
ConcCrawl(url, fetched) ==
    /\ pc = "crawl"
    /\ ~sequentially
    /\ url \in links \ Crawled
    /\ fetched.ok => ~ExtractPanics(fetched.html)
    /\ \E tx \in Readings(now, Blocks(fetched), Stamped(fetched)) :
       LET page == extract_page(url, fetched, tx) IN
       /\ now' = LastReading(tx, now)
       /\ page_extractions' = page_extractions \cup {page}
       /\ Remember(url, fetched, page.errors)
       /\ \E order \in Orders(page.articles) :
             LET ta == [k \in 1..Len(order) |-> LastReading(tx, now)]
                 r == extract_page_to_file(alt.fs, page, order, AllOk(Len(order)), ta)
             IN  alt' = [alt EXCEPT !.fs = r.fs, !.pages = @ \cup {r.page}]
    /\ UNCHANGED <<fs, pc, status, sequentially, extracted_links, downloaded_pages,
                   failed_pages, links, runs, faults, site, fs0, loaded, prev, attempted,
                   failing, log>>

\* The locals of a run that is over.
Dropped ==
    /\ extracted_links' = {}
    /\ downloaded_pages' = {}
    /\ failed_pages' = EmptyMap
    /\ links' = {}
    /\ page_extractions' = {}
    /\ UNCHANGED sequentially

\* The expect of get_element_url panics while a page is extracted: the
\* process dies where it is.
Panic(url, fetched) ==
    /\ pc = "crawl"
    /\ url \in links \ Crawled
    /\ fetched.ok /\ ExtractPanics(fetched.html)
    /\ pc' = "idle"
    /\ status' = "panic"
    /\ Dropped
    /\ Over(fs)
    /\ UNCHANGED <<fs, now, runs, faults, site, prev, attempted, failing>>

ErroredPage(url, errors) ==
    [url |-> url, errors |-> [i \in 1..Len(errors) |-> to_string(errors[i])]]

\* reconcile_page with the success branch taken whatever the errors.
reconcile_page_ignoring_errors(book, page_extraction) ==
    [downloaded |-> book.downloaded \cup {page_extraction.url},
     failed |-> [u \in DOMAIN book.failed \ {page_extraction.url} |-> book.failed[u]]]

\* reconcile_page whose success branch replaces the downloaded set by the url.
reconcile_page_replacing(book, page_extraction) ==
    LET url == page_extraction.url IN
    IF page_extraction.errors = <<>>
    THEN [downloaded |-> {url},
          failed |-> [u \in DOMAIN book.failed \ {url} |-> book.failed[u]]]
    ELSE [downloaded |-> book.downloaded,
          failed |-> [u \in DOMAIN book.failed \cup {url} |->
                         IF u = url
                         THEN [url |-> url,
                               errors |-> [i \in 1..Len(page_extraction.errors) |->
                                             to_string(page_extraction.errors[i])]]
                         ELSE book.failed[u]]]

\* reconcile_page that records a failed page and marks it downloaded too.
reconcile_page_marking_failed(book, page_extraction) ==
    LET url == page_extraction.url IN
    [downloaded |-> book.downloaded \cup {url},
     failed |-> IF page_extraction.errors = <<>>
                THEN [u \in DOMAIN book.failed \ {url} |-> book.failed[u]]
                ELSE [u \in DOMAIN book.failed \cup {url} |->
                         IF u = url
                         THEN [url |-> url,
                               errors |-> [i \in 1..Len(page_extraction.errors) |->
                                             to_string(page_extraction.errors[i])]]
                         ELSE book.failed[u]]]

\* The body of the for_each of the bookkeeping update for one PageExtraction,
\* on book = [downloaded, failed].
reconcile_page(book, page_extraction) ==
    LET url == page_extraction.url IN
    IF page_extraction.errors = <<>>
    THEN [downloaded |-> book.downloaded \cup {url},
          failed |-> [u \in DOMAIN book.failed \ {url} |-> book.failed[u]]]
    ELSE [downloaded |-> book.downloaded,
          failed |-> [u \in DOMAIN book.failed \cup {url} |->
                         IF u = url THEN ErroredPage(url, page_extraction.errors)
                         ELSE book.failed[u]]]

\* The for_each over the page extractions.
RECURSIVE reconcile(_, _)
reconcile(book, extractions) ==
    IF extractions = {} THEN book
    ELSE LET p == CHOOSE q \in extractions : TRUE
         IN  reconcile(reconcile_page(book, p), extractions \ {p})

\* The bookkeeping update taken without waiting for the crawls.
ReconcileEarly ==
    /\ pc = "crawl"
    /\ LET book == reconcile([downloaded |-> downloaded_pages, failed |-> failed_pages],
                             page_extractions)
       IN  /\ downloaded_pages' = book.downloaded
           /\ failed_pages' = book.failed
    /\ pc' = "persist"
    /\ attempted' = attempted \cup Crawled
    /\ failing' = (failing \ Crawled) \cup {p.url : p \in {q \in page_extractions : q.errors # <<>>}}
    /\ alt' = [alt EXCEPT
                 !.book = reconcile([downloaded |-> loaded, failed |-> EmptyMap], alt.pages)]
    /\ UNCHANGED <<fs, now, status, sequentially, extracted_links, links,
                   page_extractions, runs, faults, site, fs0, loaded, cur, prev, log>>

\* All pages are crawled: the bookkeeping update.
Reconcile ==
    /\ pc = "crawl"
    /\ links \subseteq Crawled
    /\ LET book == reconcile([downloaded |-> downloaded_pages, failed |-> failed_pages],
                             page_extractions)
       IN  /\ downloaded_pages' = book.downloaded
           /\ failed_pages' = book.failed
    /\ pc' = "persist"
    /\ attempted' = attempted \cup Crawled
    /\ failing' = (failing \ Crawled) \cup {p.url : p \in {q \in page_extractions : q.errors # <<>>}}
    /\ alt' = [alt EXCEPT
                 !.book = reconcile([downloaded |-> loaded, failed |-> EmptyMap], alt.pages)]
    /\ UNCHANGED <<fs, now, status, sequentially, extracted_links, links,
                   page_extractions, runs, faults, site, fs0, loaded, cur, prev, log>>

\* The order of the urls of the site as strings.
PageOrder == <<"A", "B", "C">>
UrlRank(url) == CHOOSE k \in 1..Len(PageOrder) : PageUrl(PageOrder[k]) = url
\* sort: the urls of a set in increasing order.
SortedUrls(urls) ==
    CHOOSE s \in [1..Cardinality(urls) -> urls] :
        \A i, j \in 1..Cardinality(urls) : i < j => UrlRank(s[i]) < UrlRank(s[j])

\* The JSON written to successful-pages.json: the sorted array of the urls.
DownloadedJson(downloaded) == SortedUrls(downloaded)
\* The JSON written to failed-pages.json: the array of the entries
\* (url, ErroredPage), sorted by url.
FailedJson(failed) ==
    LET s == SortedUrls(DOMAIN failed) IN [i \in 1..Len(s) |-> <<s[i], failed[s[i]]>>]

\* The two bookkeeping files are written, the downloaded pages first; a
\* failed write returns the error and the run is over.
PersistBookkeeping(w1, w2) ==
    /\ pc = "persist"
    /\ LET r1 == serialize_to_file(fs, DOWNLOADED_PAGES_FILE,
                                   DownloadedJson(downloaded_pages), w1)
           r2 == serialize_to_file(r1.fs, FAILED_PAGES_FILE, FailedJson(failed_pages), w2)
       IN  IF r1.ok
           THEN /\ fs' = r2.fs
                /\ status' = (IF r2.ok THEN "ok" ELSE "err")
                /\ faults + Faults(<<w1, w2>>) <= MaxFaults
                /\ faults' = faults + Faults(<<w1, w2>>)
           ELSE /\ fs' = r1.fs
                /\ status' = "err"
                /\ w2 = "ok"
                /\ faults + 1 <= MaxFaults
                /\ faults' = faults + 1
    /\ pc' = "idle"
    /\ Dropped
    /\ Over(fs')
    /\ UNCHANGED <<now, runs, site, prev, attempted, failing>>

\* What a kill of the process can cut short: nothing, the write of one of
\* the bookkeeping files, the run between the two writes, or the run after
\* both writes and before it returns.
Cuts == {"none", "downloaded", "between", "failed", "done"}

\* The host kills the process during a run, from the crawl on: while pages
\* are crawled, or in the bookkeeping writes, where it can leave the file being written created
\* or truncated and not written out (serialize_to_file is not transactional).
Kill(cut) ==
    /\ pc \in {"crawl", "persist"}
    /\ cut # "none" => pc = "persist"
    /\ faults + 1 <= MaxFaults
    /\ faults' = faults + 1
    /\ LET r1 == serialize_to_file(fs, DOWNLOADED_PAGES_FILE,
                                   DownloadedJson(downloaded_pages),
                                   IF cut = "downloaded" THEN "write_err" ELSE "ok")
           r2 == serialize_to_file(r1.fs, FAILED_PAGES_FILE, FailedJson(failed_pages),
                                   IF cut = "failed" THEN "write_err" ELSE "ok")
       IN  fs' = (CASE cut = "none" -> fs
                    [] cut = "downloaded" -> r1.fs
                    [] cut = "between" -> r1.fs
                    [] cut = "failed" -> r2.fs
                    [] cut = "done" -> r2.fs)
    /\ pc' = "idle"
    /\ status' = "killed"
    /\ Dropped
    /\ Over(fs')
    /\ UNCHANGED <<now, runs, site, prev, attempted, failing>>

\* The host kills the process inside extract_page_to_file, in sequential
\* mode: the first n articles of the page are done and the loop body of the
\* next is stopped at cut.
KillInPage(url, fetched, cut) ==
    /\ pc = "crawl"
    /\ sequentially
    /\ url \in links \ Crawled
    /\ fetched.ok /\ ~ExtractPanics(fetched.html)
    /\ faults + 1 <= MaxFaults
    /\ faults' = faults + 1
    /\ \E tx \in Readings(now, Blocks(fetched), Stamped(fetched)) :
       LET page == extract_page(url, fetched, tx) IN
       \E order \in Orders(page.articles) :
       \E ta \in Readings(LastReading(tx, now), Len(order),
                           Archived(fs, order, AllOk(Len(order)))) :
       \E n \in 0..(Len(order) - 1) :
          LET done == persist_articles(fs, order, AllOk(Len(order)), ta, n)
              stop == killed_persist_article(done.fs, order[n + 1], cut, ta[n + 1])
          IN  /\ stop.reached
              /\ fs' = stop.fs
              /\ now' = ta[n + 1]
    /\ pc' = "idle"
    /\ status' = "killed"
    /\ Dropped
    /\ Over(fs')
    /\ UNCHANGED <<runs, site, prev, attempted, failing>>

\* The steps of a run.
Next ==
    \/ \E seq \in BOOLEAN, root \in RootFetches(site), read \in ReadOutcomes,
          mkdir \in {"ok", "err"} : Begin(seq, root, read, mkdir)
    \/ \E url \in Pages : \E fetched \in PageFetches(url, site) : SeqCrawl(url, fetched)
    \/ \E url \in Pages : \E fetched \in PageFetches(url, site) : ConcCrawl(url, fetched)
    \/ \E url \in Pages : \E fetched \in PageFetches(url, site) : Panic(url, fetched)
    \/ Reconcile
    \/ \E w1, w2 \in WriteOutcomes : PersistBookkeeping(w1, w2)
    \/ \E cut \in Cuts : Kill(cut)
    \/ \E url \in Pages : \E fetched \in PageFetches(url, site), cut \in LoopCuts :
          KillInPage(url, fetched, cut)
    \/ \E seq \in BOOLEAN, root \in StartKills(site) : KillAtStart(seq, root)

\* The steps of a run, and the clock advancing between two runs.
NextTimed == Tick \/ Next

\* Runs over the site of three pages, one right after the other, the clock
\* advancing between two readings of a run.
Spec == Init /\ [][Next]_vars
\* Runs over the site of one page, the clock advancing between two runs and
\* between two readings of a run.
PageSpec == InitPage /\ [][NextTimed]_vars

\* ------------------------------------------------------------ properties
A == PageUrl("A")
B == PageUrl("B")
C == PageUrl("C")

\* The downloaded pages a file system holds, where the file can be read.
DlReadable(files) ==
    DOWNLOADED_PAGES_FILE \in DOMAIN files => files[DOWNLOADED_PAGES_FILE] # Corrupt
DlFile(files) ==
    IF DOWNLOADED_PAGES_FILE \in DOMAIN files /\ files[DOWNLOADED_PAGES_FILE] # Corrupt
    THEN SetOfArray(Unwrap(files[DOWNLOADED_PAGES_FILE])) ELSE {}
\* The entries of the failed pages a file system holds, and their urls.
FpFile(files) ==
    IF FAILED_PAGES_FILE \in DOMAIN files /\ files[FAILED_PAGES_FILE] # Corrupt
    THEN SetOfArray(Unwrap(files[FAILED_PAGES_FILE])) ELSE {}
FpUrls(files) == {e[1] : e \in FpFile(files)}
Succeeded == {p.url : p \in {q \in page_extractions : q.errors = <<>>}}
Failed == {p.url : p \in {q \in page_extractions : q.errors # <<>>}}

\* The pages whose date link the fetched root page of this run carries.
Listed ==
    IF cur.root = None THEN {}
    ELSE {PageUrl(n) : n \in {m \in PageNames : DateAnchor(m) \in Unwrap(cur.root).anchors}}

\* C1: after the bookkeeping update, every crawled page without errors is in
\* downloaded_pages and not in failed_pages, and every crawled page with
\* errors is in failed_pages with the displayed errors of this run and was
\* not added to downloaded_pages; from downloaded {A}, failed {B}, with B
\* crawled again without errors and C failing, the result is downloaded
\* {A, B}, failed {C}; and a run that ends well leaves exactly these two
\* collections in the two files.
BookkeepingReconciliation ==
    /\ [](pc = "persist" =>
            /\ \A p \in page_extractions :
                  IF p.errors = <<>>
                  THEN p.url \in downloaded_pages /\ p.url \notin DOMAIN failed_pages
                  ELSE /\ p.url \in DOMAIN failed_pages
                       /\ failed_pages[p.url].url = p.url
                       /\ Len(failed_pages[p.url].errors) = Len(p.errors)
                       /\ \A i \in 1..Len(p.errors) :
                             failed_pages[p.url].errors[i] = to_string(p.errors[i])
                       /\ p.url \notin downloaded_pages \ loaded
            /\ (/\ loaded = {A}
                /\ FpUrls(fs0) = {B}
                /\ Succeeded = {B}
                /\ Failed = {C})
               => downloaded_pages = {A, B} /\ DOMAIN failed_pages = {C})
    /\ [][(pc = "persist" /\ status' = "ok") =>
             /\ DlFile(fs') = downloaded_pages
             /\ FpUrls(fs') = DOMAIN failed_pages
             /\ \A e \in FpFile(fs') : e[2] = failed_pages[e[1]]]_vars

ReconciledABC ==
    /\ pc = "persist"
    /\ loaded = {A}
    /\ FpUrls(fs0) = {B}
    /\ Succeeded = {B}
    /\ Failed = {C}
    /\ downloaded_pages = {A, B}
    /\ DOMAIN failed_pages = {C}

\* C2: after the bookkeeping update of a run, no url is in downloaded_pages
\* and in failed_pages, in memory and, when the run ends well, in the files.
NoUrlInBoth ==
    /\ pc = "persist" => downloaded_pages \cap DOMAIN failed_pages = {}
    /\ (pc = "idle" /\ status = "ok") => DlFile(fs) \cap FpUrls(fs) = {}

BothCollectionsFilled ==
    /\ pc = "persist"
    /\ runs = 2
    /\ loaded # {}
    /\ downloaded_pages # loaded
    /\ DOMAIN failed_pages # {}

\* C3: once a url was crawled in a run that reached its bookkeeping update,
\* after the bookkeeping update of that run and of every later run it is in
\* exactly one of downloaded_pages and failed_pages, whether or not the root
\* page still lists it; and a url of the failed pages file is still failed
\* unless this run crawled it without errors. No file operation has failed.
AttemptedUrlStaysTracked ==
    (pc = "persist" /\ faults = 0) =>
        /\ \A u \in attempted : (u \in downloaded_pages) # (u \in DOMAIN failed_pages)
        /\ \A u \in FpUrls(fs) : u \in DOMAIN failed_pages \/ u \in Succeeded

\* C4: the downloaded set a run holds after its bookkeeping update contains
\* the set it loaded, which is the set the file holds; what it adds are urls
\* crawled in this run without errors; and the set in the file never loses
\* a url or gains one that was not crawled without errors in the run that
\* writes it.
MonotonicProgress ==
    /\ [](pc = "persist" =>
            /\ loaded = DlFile(fs)
            /\ loaded \subseteq downloaded_pages
            /\ downloaded_pages \ loaded \subseteq Succeeded)
    /\ [][(DlReadable(fs) /\ DlReadable(fs')) =>
             /\ DlFile(fs) \subseteq DlFile(fs')
             /\ DlFile(fs') \ DlFile(fs) \subseteq Succeeded]_vars

DownloadedGrows ==
    /\ pc = "persist"
    /\ runs = 2
    /\ DlFile(fs) # {}
    /\ downloaded_pages \ DlFile(fs) # {}
    /\ Failed # {}

\* C5: the pages fetched in a run are the pages the root page lists less the
\* downloaded pages the run loaded, whatever links the fetched pages carry;
\* no page in the downloaded file is fetched.
FetchedIsListedLessDownloaded ==
    /\ pc = "crawl" => Crawled \subseteq Listed \ loaded
    /\ pc = "persist" => Crawled = Listed \ loaded
    /\ pc \in {"crawl", "persist"} => loaded = DlFile(fs) /\ Crawled \cap DlFile(fs) = {}

DownloadedPageSkipped ==
    /\ pc = "persist"
    /\ Listed \cap loaded # {}
    /\ Crawled # {}
    /\ \E p \in page_extractions : ~(p.links \subseteq Crawled \cup loaded)

\* C6 as amended: a url whose latest crawl produced errors is not in the
\* downloaded pages a later run loads, and is in the links to crawl of every
\* later run that reaches the crawl and whose root page lists it.
RetryWhileListed ==
    pc = "crawl" =>
        /\ failing \cap loaded = {}
        /\ \A u \in failing : u \in Listed => u \in links

\* C6 as stated: a url whose latest crawl produced errors is in the links
\* to crawl of the next run.
RetryNextRun ==
    pc = "crawl" => failing \subseteq links

RetriedTwice ==
    /\ pc = "crawl"
    /\ runs = 3
    /\ prev.status = "ok"
    /\ DOMAIN prev.run.served \cap failing \cap links # {}

\* Content equality of two article records as the data model states it.
SameContent(j, a) ==
    /\ j.uid = a.uid
    /\ j.title = a.title
    /\ j.content = a.content
    /\ j.url = a.url
    /\ j.pageIndex = a.page_index

SameUpstream ==
    /\ cur.root = prev.run.root
    /\ \A u \in DOMAIN cur.served :
          u \in DOMAIN prev.run.served /\ cur.served[u] = prev.run.served[u]

\* C7: when a run returned Ok and a second run against the same upstream
\* (root links, page contents, fetch outcomes) returned Ok, every file is as
\* the first run left it: no new article file, no archive file, no article
\* file changed, and the same downloaded and failed pages.
RerunIdempotent ==
    (/\ pc = "idle" /\ status = "ok" /\ prev.status = "ok"
     /\ SameUpstream)
    => fs = fs0

\* C8: when extract_page_to_file finds a record at an article's path that
\* is not content-equal to the article, and its file operations succeed, the
\* backup path, stamped with the clock as read for it, holds the previous
\* record with deprecated set and the live path holds the new article, not
\* deprecated, extracted not before the previous record and not after that
\* reading of the clock.
ChangeDetection ==
    \A e \in log :
        (/\ e.had /\ e.old # Corrupt
         /\ ~SameContent(Unwrap(e.old), e.article)
         /\ e.io = [read |-> "ok", backup |-> "ok", live |-> "ok"])
        => /\ e.backup = e.path \o <<" - ", BACKUP_DATE_FORMAT, ToString(e.now)>>
           /\ e.backup \in DOMAIN fs
           /\ fs[e.backup] = Some([Unwrap(e.old) EXCEPT !.deprecated = TRUE])
           /\ fs[e.path] = Some(ArticleToJson(e.article))
           /\ Unwrap(fs[e.path]).deprecated = FALSE
           /\ \E t0 \in 0..e.now : \E t \in t0..e.now :
                 /\ Unwrap(e.old).extractionDate = <<EXTRACTION_DATE_FORMAT, ToString(t0)>>
                 /\ Unwrap(fs[e.path]).extractionDate = <<EXTRACTION_DATE_FORMAT, ToString(t)>>

ArticleChanged ==
    \E e \in log :
        /\ e.had /\ e.old # Corrupt
        /\ Unwrap(e.old).content # e.article.content
        /\ Unwrap(e.old).extractionDate # e.article.extraction_date
        /\ e.io = [read |-> "ok", backup |-> "ok", live |-> "ok"]
        /\ ~e.hadBackup

\* C9: when extract_page_to_file reads a record at an article's path that
\* is content-equal to the article, the live file and the backup path are as
\* they were: nothing is written.
UnchangedSkip ==
    \A e \in log :
        (/\ e.had /\ e.old # Corrupt
         /\ e.io.read = "ok"
         /\ SameContent(Unwrap(e.old), e.article))
        => /\ fs[e.path] = e.old
           /\ (e.backup \in DOMAIN fs) = e.hadBackup
           /\ e.hadBackup => fs[e.backup] = e.oldBackup

ArticleUnchanged ==
    \E e \in log :
        /\ e.had /\ e.old # Corrupt
        /\ e.io.read = "ok"
        /\ SameContent(Unwrap(e.old), e.article)
        /\ Unwrap(e.old).extractionDate # e.article.extraction_date

\* C10: a run in either mode, from the same files, with the same upstream
\* and no failed file operation, ends with the same files and the same
\* downloaded and failed pages as the run in the other mode.
ModeEquivalence ==
    (pc = "persist" /\ faults = cur.faults0)
    => /\ fs = alt.fs
       /\ downloaded_pages = alt.book.downloaded
       /\ failed_pages = alt.book.failed

\* Whether a file system holds both bookkeeping files, readable.
BookkeepingWritten(files) ==
    /\ DOWNLOADED_PAGES_FILE \in DOMAIN files
    /\ files[DOWNLOADED_PAGES_FILE] # Corrupt
    /\ FAILED_PAGES_FILE \in DOMAIN files
    /\ files[FAILED_PAGES_FILE] # Corrupt

\* C11: every run of extract_all_pages that is over has completed: it
\* returned Ok and both bookkeeping files are written, whatever network,
\* parser or file error occurred in it.
RunAlwaysCompletes ==
    (pc = "idle" /\ runs > 0) => (status = "ok" /\ BookkeepingWritten(fs))

\* What the loop of extract_page_to_file did at a met article e: whether the
\* read of the record at its path failed, whether it gave a record, and
\* which writes it went on to and which of them failed.
ReadFailed(e) == e.io.read = "err" \/ (e.had /\ e.old = Corrupt)
ReadGave(e) == ~ReadFailed(e) /\ e.had
BackupFailed(e) ==
    ReadGave(e) /\ ~SameContent(Unwrap(e.old), e.article) /\ e.io.backup # "ok"
LiveFailed(e) ==
    ~(ReadGave(e) /\ SameContent(Unwrap(e.old), e.article)) /\ e.io.live # "ok"
\* Whether the errors of a page hold a FileError naming path.
NamesFile(p, path) ==
    \E i \in 1..Len(p.errors) : p.errors[i].kind = "FileError" /\ p.errors[i].at = path

\* C12: when the read of the record, the write of the archive or the write
\* of the live record of an article fails, the errors of its page hold a
\* FileError naming the path, and after the bookkeeping update the page is
\* in failed_pages and not in downloaded_pages.
PersistenceFailuresRecorded ==
    (pc = "persist" /\ sequentially) =>
        \A p \in page_extractions : \A e \in log :
            e.article \in p.articles =>
                /\ (ReadFailed(e) \/ LiveFailed(e)) =>
                      /\ NamesFile(p, e.path)
                      /\ p.url \in DOMAIN failed_pages
                      /\ p.url \notin downloaded_pages
                /\ BackupFailed(e) =>
                      /\ NamesFile(p, e.backup)
                      /\ p.url \in DOMAIN failed_pages
                      /\ p.url \notin downloaded_pages

\* The paths of the article files of a file system that hold a record that
\* is not deprecated.
LiveFiles(files) ==
    {p \in DOMAIN files \ {DOWNLOADED_PAGES_FILE, FAILED_PAGES_FILE} :
        files[p] # Corrupt /\ ~Unwrap(files[p]).deprecated}

\* C13: for each article uid at most one article file holds a record with
\* deprecated = false.
OneLiveVersionPerUid ==
    \A p, q \in LiveFiles(fs) : Unwrap(fs[p]).uid = Unwrap(fs[q]).uid => p = q

\* The articles extract_page found on the page at url in this run.
ArticlesOf(url) == UNION {p.articles : p \in {q \in alt.pages : q.url = url}}
\* Whether a file system holds, at the path of the article, a live record
\* with its content.
HasLiveRecord(files, article) ==
    /\ gen_article_filename(article) \in DOMAIN files
    /\ files[gen_article_filename(article)] # Corrupt
    /\ SameContent(Unwrap(files[gen_article_filename(article)]), article)
    /\ ~Unwrap(files[gen_article_filename(article)]).deprecated

\* C14: when a run was killed, the next run against the same upstream, if
\* it is not killed, does not panic, fetches the root page and meets no
\* failing file operation, returns Ok, and every page it crawled without
\* errors is in the downloaded pages file and each of its articles has a
\* live record with the current content.
SelfHealingAfterKill ==
    (/\ pc = "idle"
     /\ prev.status = "killed"
     /\ status \in {"ok", "err"}
     /\ cur.root # None
     /\ cur.root = prev.run.root
     /\ \A u \in DOMAIN cur.served \cap DOMAIN prev.run.served :
           cur.served[u] = prev.run.served[u]
     /\ faults = cur.faults0)
    => /\ status = "ok"
       /\ \A u \in DOMAIN cur.served :
             cur.errors[u] = <<>> =>
                /\ u \in DlFile(fs)
                /\ \A a \in ArticlesOf(u) : HasLiveRecord(fs, a)

\* C15: the article set of a PageExtraction never holds two Articles with
\* the same uid.
UidDedup ==
    \A p \in page_extractions : \A a, b \in p.articles : a.uid = b.uid => a = b

\* The crawled pages that were fetched and hold no article block.
PagesWithoutBlocks ==
    {p \in page_extractions :
        cur.served[p.url].ok /\ cur.served[p.url].html.blocks = <<>>}

\* C16: a fetched page without article blocks yields no article and exactly
\* one error, a ParserError, and after the bookkeeping update it is in
\* failed_pages and not in downloaded_pages.
ZeroArticlesPageParserError ==
    \A p \in PagesWithoutBlocks :
        /\ p.articles = {}
        /\ Len(p.errors) = 1
        /\ p.errors[1].kind = "ParserError"
        /\ pc = "persist" => (p.url \in DOMAIN failed_pages /\ p.url \notin downloaded_pages)

\* Whether an article block has all its fields: the permalink with an href
\* that carries a uid, the title, the date and the body.
WellFormed(block) ==
    /\ block.h3 # None
    /\ Unwrap(block.h3).a # None
    /\ Unwrap(Unwrap(block.h3).a).href # None
    /\ extract_galnet_url_uid(
          with_site_base_url(Unwrap(Unwrap(Unwrap(block.h3).a).href))) # None
    /\ block.date # None
    /\ block.content # None
WellFormedBlocks(html) == {i \in 1..Len(html.blocks) : WellFormed(html.blocks[i])}
ParserErrors(p) == {i \in 1..Len(p.errors) : p.errors[i].kind = "ParserError"}

\* C17: the extraction of a fetched page gives one result per article block:
\* every block with all its fields yields the Article of its position, every
\* other block one error of its own, so that k well-formed blocks give k
\* articles; and no extraction of a page that holds a well-formed block is
\* cut short by another block.
PartialFailureIsolation ==
    /\ [](\A p \in page_extractions :
            cur.served[p.url].ok =>
               LET html == cur.served[p.url].html IN
               /\ \A i \in WellFormedBlocks(html) :
                     \E a \in p.articles :
                        /\ a.page_index = i - 1
                        /\ a.content = Trim(Unwrap(html.blocks[i].content))
               /\ Cardinality(p.articles) = Cardinality(WellFormedBlocks(html))
               /\ Cardinality(ParserErrors(p))
                     = Len(html.blocks) - Cardinality(WellFormedBlocks(html)))
    /\ [][\A url \in Pages : \A fetched \in PageFetches(url, site) :
             (fetched.ok /\ WellFormedBlocks(fetched.html) # {}) => ~Panic(url, fetched)]_vars

\* The first field an article block lacks, in the order url, uid, title,
\* date, content ("none" for a well-formed block).
FirstMiss(block) ==
    IF block.h3 = None \/ Unwrap(block.h3).a = None
       \/ Unwrap(Unwrap(block.h3).a).href = None THEN "url"
    ELSE IF extract_galnet_url_uid(
               with_site_base_url(Unwrap(Unwrap(Unwrap(block.h3).a).href))) = None
         THEN "uid"
    ELSE IF block.date = None THEN "date"
    ELSE IF block.content = None THEN "content"
    ELSE "none"
\* How the text of the error that names a field ends.
MissText(field) ==
    CASE field = "url" -> "Couldn't find article url"
      [] field = "uid" -> "\" uid"
      [] field = "title" -> "\" title"
      [] field = "date" -> "\" date"
      [] field = "content" -> "\" content"

\* C18: no extraction panics; every article block that lacks a field yields
\* one ParserError that names the first field it lacks, in the order url
\* (the permalink element or its href), uid, title, date, content.
MissingFieldReported ==
    /\ status # "panic"
    /\ \A p \in page_extractions :
          cur.served[p.url].ok =>
             LET html == cur.served[p.url].html IN
             /\ Cardinality(ParserErrors(p))
                   = Len(html.blocks) - Cardinality(WellFormedBlocks(html))
             /\ \A i \in (1..Len(html.blocks)) \ WellFormedBlocks(html) :
                   \E j \in ParserErrors(p) :
                      p.errors[j].cause.text[Len(p.errors[j].cause.text)]
                         = MissText(FirstMiss(html.blocks[i]))

\* C19: a run that crawls is ended before its bookkeeping update by a kill
\* alone, never by what a page gives; and when the bookkeeping update is
\* done every url to crawl has been crawled, once.
EveryLinkCrawled ==
    /\ [](pc = "persist" =>
            /\ Crawled = links
            /\ Cardinality(page_extractions) = Cardinality(links))
    /\ [][(pc = "crawl" /\ pc' = "idle") => status' = "killed"]_vars

\* C20: in concurrent mode downloaded_pages and failed_pages do not change
\* while a crawl of the run is still to complete, whatever the order in
\* which the crawls complete; they change in the one step that follows the
\* last crawl, the bookkeeping update.
NoConcurrentMutation ==
    [][(~sequentially /\ pc = "crawl" /\ pc' # "idle") =>
          /\ ~(links \subseteq Crawled) =>
                (downloaded_pages' = downloaded_pages /\ failed_pages' = failed_pages)
          /\ (downloaded_pages' # downloaded_pages \/ failed_pages' # failed_pages) =>
                (pc' = "persist" /\ links \subseteq Crawled)]_vars
\* A concurrent run of two crawls or more whose bookkeeping update changed
\* both collections.
ConcurrentReduction ==
    /\ ~sequentially
    /\ pc = "persist"
    /\ Cardinality(Crawled) >= 2
    /\ downloaded_pages # loaded
    /\ failed_pages # EmptyMap

\* The paths extract_page_to_file writes: the path of an article's record
\* ends with .json, the path of an archived record with a time stamp.
IsLivePath(p) ==
    /\ p \notin {DOWNLOADED_PAGES_FILE, FAILED_PAGES_FILE}
    /\ SubSeq(p, 1, Len(EXTRACTED_FILES_LOCATION)) = EXTRACTED_FILES_LOCATION
    /\ p[Len(p)] = ".json"
IsArchivePath(p) ==
    /\ Len(p) > 3
    /\ IsLivePath(SubSeq(p, 1, Len(p) - 3))
    /\ p[Len(p) - 2] = " - "
    /\ p[Len(p) - 1] = BACKUP_DATE_FORMAT

\* C21: every file is a bookkeeping file, at a live path or at an archive
\* path; every record held at a live path has deprecated = false and every
\* record held at an archive path has deprecated = true.
DeprecatedFlag ==
    \A p \in DOMAIN fs :
        /\ p \in {DOWNLOADED_PAGES_FILE, FAILED_PAGES_FILE} \/ IsLivePath(p) \/ IsArchivePath(p)
        /\ (IsLivePath(p) /\ fs[p] # Corrupt) => ~Unwrap(fs[p]).deprecated
        /\ (IsArchivePath(p) /\ fs[p] # Corrupt) => Unwrap(fs[p]).deprecated
\* After two runs or more a live record stands next to its archived version.
ArchivedAndLive ==
    /\ pc = "idle"
    /\ runs >= 2
    /\ \E p, q \in DOMAIN fs :
          /\ IsLivePath(p) /\ fs[p] # Corrupt
          /\ IsArchivePath(q) /\ fs[q] # Corrupt
          /\ SubSeq(q, 1, Len(p)) = p
          /\ Unwrap(fs[q]).uid = Unwrap(fs[p]).uid
          /\ ~SameContent(Unwrap(fs[q]), ArticleFromJson(Unwrap(fs[p])))

\* C22: when a run is over, every url it crawled that the downloaded pages
\* file lists has, for each article extracted from its page in that run, a
\* live record with that content.
DownloadedImpliesPersisted ==
    pc = "idle" =>
        \A u \in DlFile(fs) \cap DOMAIN cur.served :
            \A a \in ArticlesOf(u) : HasLiveRecord(fs, a)

\* C23: where the loop of extract_page_to_file met a file at the path of an
\* article, the file is as it was when the read of it or the write of the
\* archive failed, and it is changed only when the read gave a record and
\* the archive path holds that record, deprecated.
NoVersionLost ==
    \A e \in log :
        e.had =>
            /\ (ReadFailed(e) \/ BackupFailed(e)) => fs[e.path] = e.old
            /\ fs[e.path] # e.old =>
                  /\ ReadGave(e)
                  /\ e.backup \in DOMAIN fs
                  /\ fs[e.backup] = Some([Unwrap(e.old) EXCEPT !.deprecated = TRUE])

\* C24: wherever a run stops, with both bookkeeping files written, with the
\* first written and the second failed, or killed between the two writes,
\* no url is listed in both files on disk.
BookkeepingFilesConsistent ==
    pc = "idle" => DlFile(fs) \cap FpUrls(fs) = {}
====
